---- MODULE Spec2Model ----
(***************************************************************************)
(* A model of the azqr resource-posture scanner:                           *)
(*   - AKSAnalyzer.Review / listClusters (cmd/azqr/analyzers),             *)
(*   - the rule tables of the App Service, Event Hub and Container Apps    *)
(*     scanners (internal/scanners/{plan,evh,cae}/rules.go).               *)
(* One run of the tool either reviews a resource group (pc goes            *)
(* idle -> listing -> evaluating -> done) or evaluates scanner rules       *)
(* on one resource (pc goes idle -> scan, and to exited / panicked when a   *)
(* rule ends the process).                                                 *)
(***************************************************************************)
EXTENDS Integers, Sequences, FiniteSets, TLC

\* Bounds of the model.
MaxPages == 3       \* pages a pager serves at most
MaxClusters == 3    \* resources a listing holds at most, over all its pages

VARIABLES
    pc,             \* position of the run
    resourceGroup,  \* Review's resourceGroupName argument
    more,           \* what pager.More() answers
    fetched,        \* NextPage calls made on the pager
    served,         \* the resources the remote has served, in order (environment)
    clusters,       \* listClusters' accumulator, then Review's clusters
    idx,            \* position of Review's range loop over clusters (1-based)
    results,        \* Review's results slice
    ret,            \* what Review returned
    raised,         \* the error the remote raised, if any (environment)
    diagCache,      \* the diagnostics-settings cache, by resource ID
    diagCalls,      \* remote diagnostics calls made, by resource ID
    scan,           \* the resource under rule evaluation: kind, target, scan context
    lastEval        \* the last rule evaluation: rule and outcome

vars == <<pc, resourceGroup, more, fetched, served, clusters, idx, results, ret,
          raised, diagCache, diagCalls, scan, lastEval>>

reviewVars == <<resourceGroup, more, fetched, served, clusters, idx, results, ret, raised>>

----------------------------------------------------------------------------
\* Go values.

\* A pointer (or a nil-able slice / map) is <<>> for nil and <<v>> for &v.
Nil == <<>>
Ptr(v) == <<v>>
IsNil(p) == p = <<>>
Deref(p) == p[1]

NoErr == "nil"
PageErrors == {"list: throttled", "list: forbidden"}
DiagErrors == {"diag: timeout"}

\* strings.HasPrefix
HasPrefix(s, prefix) ==
    /\ Len(s) >= Len(prefix)
    /\ SubSeq(s, 1, Len(prefix)) = prefix

----------------------------------------------------------------------------
\* The managed clusters a listing may serve.

SubscriptionId == "sub-1"
ResourceGroups == {"rg-a", "rg-b"}
AKSType == "Microsoft.ContainerService/managedClusters"

Pool(zs) == [AvailabilityZones |-> zs]

MkCluster(id, name, tier, profiles, private) ==
    [ID |-> id, Name |-> name, Type |-> AKSType, Tier |-> tier,
     AgentPoolProfiles |-> profiles, EnablePrivateCluster |-> private]

ClusterPool ==
    { MkCluster("id1", "aks-demo", "Paid", <<Pool(Ptr(<<"1", "2", "3">>))>>, TRUE),
      MkCluster("id2", "test", "Free", <<Pool(Ptr(<<"1", "2">>)), Pool(Nil)>>, FALSE),
      MkCluster("id3", "Aks-prod", "Paid", <<>>, FALSE),
      MkCluster("id4", "ak", "Paid", <<Pool(Ptr(<<"1">>))>>, TRUE),
      MkCluster("id5", "xaks", "Free", <<Pool(Ptr(<<"1", "2", "3">>)), Pool(Ptr(<<"1", "2">>))>>, TRUE),
      MkCluster("id6", "aks", "Standard", <<Pool(Ptr(<<"1", "2">>)), Pool(Ptr(<<>>))>>, FALSE) }

ResourceIds == {"id1", "id2", "id3", "id4", "id5", "id6"}

SeqsUpTo(S, n) == UNION { [1..k -> S] : k \in 0..n }

----------------------------------------------------------------------------
\* The diagnostics-settings capability: HasDiagnostics(resourceId) answers
\* from a cache keyed by resource ID and asks the remote only on a miss.
\* remote is what the remote answers if it is asked: [err, has].

DiagRemote == [err : {NoErr} \cup DiagErrors, has : BOOLEAN]

HasDiagnosticsUncached(cache, calls, id, remote) ==
    [err   |-> remote.err,
     has   |-> remote.err = NoErr /\ remote.has,
     cache |-> cache,
     calls |-> [calls EXCEPT ![id] = @ + 1]]

HasDiagnostics(cache, calls, id, remote) ==
    IF cache[id] # "none"
    THEN [err |-> NoErr, has |-> cache[id] = "yes", cache |-> cache, calls |-> calls]
    ELSE [err   |-> remote.err,
          has   |-> remote.err = NoErr /\ remote.has,
          cache |-> IF remote.err = NoErr
                    THEN [cache EXCEPT ![id] = IF remote.has THEN "yes" ELSE "no"]
                    ELSE cache,
          calls |-> [calls EXCEPT ![id] = @ + 1]]

----------------------------------------------------------------------------
\* AKSAnalyzer.Review: the per-cluster computations.

\* zones := true; for each profile: nil or at most one zone => false
ZonesNonEmpty(c) ==
    /\ c.AgentPoolProfiles # <<>>
    /\ \A i \in 1..Len(c.AgentPoolProfiles) :
          LET az == c.AgentPoolProfiles[i].AvailabilityZones
          IN ~(IsNil(az) \/ (~IsNil(az) /\ Len(Deref(az)) <= 1))

Zones(c) ==
    \A i \in 1..Len(c.AgentPoolProfiles) :
        LET az == c.AgentPoolProfiles[i].AvailabilityZones
        IN ~(IsNil(az) \/ (~IsNil(az) /\ Len(Deref(az)) <= 1))

SlaIgnoringZones(c) ==
    IF c.Tier = "Paid" THEN "99.9%" ELSE "None"

SlaStandardPaid(c) ==
    IF c.Tier \in {"Paid", "Standard"}
    THEN (IF Zones(c) THEN "99.95%" ELSE "99.9%")
    ELSE "None"

Sla(c) ==
    IF c.Tier = "Paid"
    THEN (IF Zones(c) THEN "99.95%" ELSE "99.9%")
    ELSE "None"

MakeRowPublic(c, rg, hasDiagnostics) ==
    [SubscriptionId     |-> SubscriptionId,
     ResourceGroup      |-> rg,
     ServiceName        |-> c.Name,
     Sku                |-> c.Tier,
     Sla                |-> Sla(c),
     Type               |-> c.Type,
     AvailabilityZones  |-> Zones(c),
     PrivateEndpoints   |-> FALSE,
     DiagnosticSettings |-> hasDiagnostics,
     CAFNaming          |-> HasPrefix(c.Name, "aks")]

MakeRow(c, rg, hasDiagnostics) ==
    [SubscriptionId     |-> SubscriptionId,
     ResourceGroup      |-> rg,
     ServiceName        |-> c.Name,
     Sku                |-> c.Tier,
     Sla                |-> Sla(c),
     Type               |-> c.Type,
     AvailabilityZones  |-> Zones(c),
     PrivateEndpoints   |-> c.EnablePrivateCluster,
     DiagnosticSettings |-> hasDiagnostics,
     CAFNaming          |-> HasPrefix(c.Name, "aks")]

\* Review's return values: ([]AzureServiceResult, error).
NoRet == [nilRows |-> TRUE, rows |-> <<>>, err |-> "unset"]

ListErrSwallowed(err) == [nilRows |-> FALSE, rows |-> <<>>, err |-> NoErr]

\* clusters, err := a.listClusters(...); if err != nil { return nil, err }
ListErrReturn(err) == [nilRows |-> TRUE, rows |-> <<>>, err |-> err]

DiagErrPartial(rows, err) == [nilRows |-> FALSE, rows |-> rows, err |-> err]

\* hasDiagnostics, err := ...HasDiagnostics(*c.ID); if err != nil { return nil, err }
DiagErrReturn(rows, err) == [nilRows |-> TRUE, rows |-> <<>>, err |-> err]

\* return results, nil
OkReturn(rows) == [nilRows |-> FALSE, rows |-> rows, err |-> NoErr]

AppendPageReversed(acc, page) == page \o acc

\* clusters = append(clusters, resp.Value...)
AppendPage(acc, page) == acc \o page

----------------------------------------------------------------------------
\* The resources the scanner rules are evaluated on. Only the fields the
\* rules read are kept; a pointer field may be nil.

OptBool == {Nil, Ptr(TRUE), Ptr(FALSE)}

\* map[string]*string: nil, empty or with one tag
TagMaps == {Nil, Ptr([k \in {} |-> ""]), Ptr([k \in {"env"} |-> "prod"])}

ScanIds == {"id1", "id2"}

\* scanContext.PrivateEndpoints, as the set of its keys
PEContexts == {{}, {"id1"}}

PlanSkus == { [Name |-> "F1", Tier |-> "Free"], [Name |-> "D1", Tier |-> "Shared"],
              [Name |-> "B1", Tier |-> "Basic"], [Name |-> "S1", Tier |-> "Standard"] }

\* armappservice.Plan
Plans == [ID : ScanIds, Name : {"asp-web", "Asp-web", "as"}, ZoneRedundant : OptBool,
          SKU : PlanSkus, Tags : TagMaps]

\* armappservice.Site
Sites == [ID : ScanIds, Name : {"app-web", "func-web", "App-web", "fun"},
          HTTPSOnly : OptBool, Tags : TagMaps]

\* armeventhub.EHNamespace; PrivateEndpointConnections by its length
EHNamespaces == [ID : ScanIds, Name : {"evh-bus", "Evh-bus", "ev"}, ZoneRedundant : OptBool,
                 SkuName : {"Basic", "Standard", "Standard_S1", "Premium"},
                 PrivateEndpointConnections : 0..1, Tags : TagMaps,
                 DisableLocalAuth : OptBool]

\* armappcontainers.ManagedEnvironment; VnetConfiguration is nil or holds Internal
ManagedEnvironments == [ID : ScanIds, Name : {"cae-env", "Cae-env", "ca"},
                        ZoneRedundant : OptBool,
                        VnetConfiguration : {Nil} \cup {Ptr([Internal |-> b]) : b \in OptBool},
                        Tags : TagMaps]

\* armsignalr.ResourceInfo
SignalRs == [ID : ScanIds, Name : {"sigr-hub", "Sigr-hub", "sig"},
             SkuName : {"Free_F1", "Standard_S1", "Premium_P1"},
             PrivateEndpointConnections : 0..1, Tags : TagMaps]

\* len(m) of a map that may be nil
MapLen(m) == IF IsNil(m) THEN 0 ELSE Cardinality(DOMAIN Deref(m))

\* strings.Contains
Contains(s, sub) ==
    \E i \in 1..(Len(s) - Len(sub) + 1) : SubSeq(s, i, i + Len(sub) - 1) = sub

\* What an Eval call does: it returns (broken, value), or the process dies,
\* by log.Fatalf ("fatal") or by a nil pointer dereference ("panic").
Ok(broken, value) == [status |-> "ok", broken |-> broken, value |-> value]
Fatal == [status |-> "fatal", broken |-> FALSE, value |-> ""]
Panic == [status |-> "panic", broken |-> FALSE, value |-> ""]

\* The DiagnosticSettings rule shared by every scanner; d is what
\* a.diagnosticsSettings.HasDiagnostics(*service.ID) answered.
DiagnosticSettingsEval(d) ==
    IF d.err # NoErr THEN Fatal ELSE Ok(~d.has, "")

\* zones := *i.Properties.ZoneRedundant; return !zones, ""
ZoneRedundantEval(t) ==
    IF IsNil(t.ZoneRedundant) THEN Panic ELSE Ok(~Deref(t.ZoneRedundant), "")

CAFEvalShortPrefix(t, prefix) == Ok(~HasPrefix(t.Name, SubSeq(prefix, 1, 2)), "")

\* caf := strings.HasPrefix(*c.Name, prefix); return !caf, ""
CAFEval(t, prefix) == Ok(~HasPrefix(t.Name, prefix), "")

TagsEvalNilOnly(t) == Ok(IsNil(t.Tags), "")

\* return c.Tags == nil || len(c.Tags) == 0, ""
TagsEval(t) == Ok(IsNil(t.Tags) \/ MapLen(t.Tags) = 0, "")

\* _, pe := scanContext.PrivateEndpoints[*i.ID]; return !pe, ""
PrivateContextEval(t, pe) == Ok(~(t.ID \in pe), "")

\* pe := len(i.Properties.PrivateEndpointConnections) > 0; return !pe, ""
PrivateConnectionsEval(t) == Ok(~(t.PrivateEndpointConnections > 0), "")

\* AppServiceScanner.GetRules: key -> Id
PlanRulesDuplicateId ==
    [k \in {"DiagnosticSettings", "AvailabilityZones", "SLA", "SKU", "CAF", "plan-007"} |->
        CASE k = "DiagnosticSettings" -> "plan-001"
          [] k = "AvailabilityZones" -> "plan-002"
          [] k = "SLA" -> "plan-003"
          [] k = "SKU" -> "plan-005"
          [] k = "CAF" -> "plan-006"
          [] k = "plan-007" -> "plan-006"]

PlanRules ==
    [k \in {"DiagnosticSettings", "AvailabilityZones", "SLA", "SKU", "CAF", "plan-007"} |->
        CASE k = "DiagnosticSettings" -> "plan-001"
          [] k = "AvailabilityZones" -> "plan-002"
          [] k = "SLA" -> "plan-003"
          [] k = "SKU" -> "plan-005"
          [] k = "CAF" -> "plan-006"
          [] k = "plan-007" -> "plan-007"]

plan_003_FreeOnly(t) ==
    LET sku == t.SKU.Tier
        sla == IF sku # "Free" THEN "99.95%" ELSE "None"
    IN Ok(sla = "None", sla)

plan_003_NeverBroken(t) ==
    LET sku == t.SKU.Tier
        sla == IF sku # "Free" /\ sku # "Shared" THEN "99.95%" ELSE "None"
    IN Ok(FALSE, sla)

\* sla := "None"; if sku != "Free" && sku != "Shared" { sla = "99.95%" }
plan_003(t) ==
    LET sku == t.SKU.Tier
        sla == IF sku # "Free" /\ sku # "Shared" THEN "99.95%" ELSE "None"
    IN Ok(sla = "None", sla)

PlanEval(key, t, pe, d) ==
    CASE key = "DiagnosticSettings" -> DiagnosticSettingsEval(d)
      [] key = "AvailabilityZones" -> ZoneRedundantEval(t)
      [] key = "SLA" -> plan_003(t)
      [] key = "SKU" -> Ok(FALSE, t.SKU.Name)
      [] key = "CAF" -> CAFEval(t, "asp")
      [] key = "plan-007" -> TagsEval(t)

\* AppServiceScanner.GetAppRules: key -> Id
AppRules ==
    [k \in {"DiagnosticSettings", "Private", "CAF", "app-007", "app-008"} |->
        CASE k = "DiagnosticSettings" -> "app-001"
          [] k = "Private" -> "app-004"
          [] k = "CAF" -> "app-006"
          [] k = "app-007" -> "app-007"
          [] k = "app-008" -> "app-008"]

\* h := *c.Properties.HTTPSOnly; return !h, ""
app_007(t) ==
    IF IsNil(t.HTTPSOnly) THEN Panic ELSE Ok(~Deref(t.HTTPSOnly), "")

AppEval(key, t, pe, d) ==
    CASE key = "DiagnosticSettings" -> DiagnosticSettingsEval(d)
      [] key = "Private" -> PrivateContextEval(t, pe)
      [] key = "CAF" -> CAFEval(t, "app")
      [] key = "app-007" -> app_007(t)
      [] key = "app-008" -> TagsEval(t)

\* AppServiceScanner.GetFunctionRules: key -> Id
FunctionRules ==
    [k \in {"DiagnosticSettings", "Private", "CAF", "func-007", "func-008"} |->
        CASE k = "DiagnosticSettings" -> "func-001"
          [] k = "Private" -> "func-004"
          [] k = "CAF" -> "func-006"
          [] k = "func-007" -> "func-007"
          [] k = "func-008" -> "func-008"]

\* h := c.Properties.HTTPSOnly != nil && *c.Properties.HTTPSOnly; return !h, ""
func_007(t) == Ok(~(~IsNil(t.HTTPSOnly) /\ Deref(t.HTTPSOnly)), "")

FunctionEval(key, t, pe, d) ==
    CASE key = "DiagnosticSettings" -> DiagnosticSettingsEval(d)
      [] key = "Private" -> PrivateContextEval(t, pe)
      [] key = "CAF" -> CAFEval(t, "func")
      [] key = "func-007" -> func_007(t)
      [] key = "func-008" -> TagsEval(t)

\* EventHubScanner.GetRules: key -> Id
EvhRules ==
    [k \in {"DiagnosticSettings", "AvailabilityZones", "SLA", "Private", "SKU", "CAF",
            "evh-007", "evh-008"} |->
        CASE k = "DiagnosticSettings" -> "evh-001"
          [] k = "AvailabilityZones" -> "evh-002"
          [] k = "SLA" -> "evh-003"
          [] k = "Private" -> "evh-004"
          [] k = "SKU" -> "evh-005"
          [] k = "CAF" -> "evh-006"
          [] k = "evh-007" -> "evh-007"
          [] k = "evh-008" -> "evh-008"]

evh_003_ExactName(t) ==
    LET sku == t.SkuName
        sla == IF sku # "Basic" /\ sku # "Standard" THEN "99.99%" ELSE "99.95%"
    IN Ok(FALSE, sla)

evh_003(t) ==
    LET sku == t.SkuName
        sla == IF ~Contains(sku, "Basic") /\ ~Contains(sku, "Standard")
               THEN "99.99%" ELSE "99.95%"
    IN Ok(FALSE, sla)

evh_008_NilBroken(t) ==
    Ok(IsNil(t.DisableLocalAuth) \/ ~Deref(t.DisableLocalAuth), "")

\* return c.Properties.DisableLocalAuth != nil && !*c.Properties.DisableLocalAuth, ""
evh_008(t) ==
    Ok(~IsNil(t.DisableLocalAuth) /\ ~Deref(t.DisableLocalAuth), "")

EvhEval(key, t, pe, d) ==
    CASE key = "DiagnosticSettings" -> DiagnosticSettingsEval(d)
      [] key = "AvailabilityZones" -> ZoneRedundantEval(t)
      [] key = "SLA" -> evh_003(t)
      [] key = "Private" -> PrivateConnectionsEval(t)
      [] key = "SKU" -> Ok(FALSE, t.SkuName)
      [] key = "CAF" -> CAFEval(t, "evh")
      [] key = "evh-007" -> TagsEval(t)
      [] key = "evh-008" -> evh_008(t)

\* ContainerAppsScanner.GetRules: key -> Id
CaeRules ==
    [k \in {"DiagnosticSettings", "AvailabilityZones", "SLA", "Private", "CAF", "cae-007"} |->
        CASE k = "DiagnosticSettings" -> "cae-001"
          [] k = "AvailabilityZones" -> "cae-002"
          [] k = "SLA" -> "cae-003"
          [] k = "Private" -> "cae-004"
          [] k = "CAF" -> "cae-006"
          [] k = "cae-007" -> "cae-007"]

\* pe := app.Properties.VnetConfiguration != nil && *app.Properties.VnetConfiguration.Internal
cae_004(t) ==
    IF IsNil(t.VnetConfiguration)
    THEN Ok(TRUE, "")
    ELSE IF IsNil(Deref(t.VnetConfiguration).Internal)
         THEN Panic
         ELSE Ok(~Deref(Deref(t.VnetConfiguration).Internal), "")

CaeEval(key, t, pe, d) ==
    CASE key = "DiagnosticSettings" -> DiagnosticSettingsEval(d)
      [] key = "AvailabilityZones" -> ZoneRedundantEval(t)
      [] key = "SLA" -> Ok(FALSE, "99.95%")
      [] key = "Private" -> cae_004(t)
      [] key = "CAF" -> CAFEval(t, "cae")
      [] key = "cae-007" -> TagsEval(t)

\* SignalRScanner.GetRules: key -> Id
SigrRules ==
    [k \in {"DiagnosticSettings", "AvailabilityZones", "SLA", "Private", "SKU", "CAF",
            "sigr-007"} |->
        CASE k = "DiagnosticSettings" -> "sigr-001"
          [] k = "AvailabilityZones" -> "sigr-002"
          [] k = "SLA" -> "sigr-003"
          [] k = "Private" -> "sigr-004"
          [] k = "SKU" -> "sigr-005"
          [] k = "CAF" -> "sigr-006"
          [] k = "sigr-007" -> "sigr-007"]

\* zones := strings.Contains(sku, "Premium"); return !zones, ""
sigr_002(t) == Ok(~Contains(t.SkuName, "Premium"), "")

SigrEval(key, t, pe, d) ==
    CASE key = "DiagnosticSettings" -> DiagnosticSettingsEval(d)
      [] key = "AvailabilityZones" -> sigr_002(t)
      [] key = "SLA" -> Ok(FALSE, "99.9%")
      [] key = "Private" -> PrivateConnectionsEval(t)
      [] key = "SKU" -> Ok(FALSE, t.SkuName)
      [] key = "CAF" -> CAFEval(t, "sigr")
      [] key = "sigr-007" -> TagsEval(t)

\* armcontainerservice.ManagedCluster as the AKS scanner's addon rules read
\* it: Properties.AddonProfiles, a map from addon name to its Enabled flag.
AddonKeys == {"httpApplicationRouting", "omsagent", "omsAgent"}

AddonMaps == UNION { [ks -> [Enabled : BOOLEAN]] : ks \in SUBSET AddonKeys }

\* The agent pool profiles of the SLA test cases: no zones, three zones.
AksPoolLists == {<<Pool(Ptr(<<>>))>>, <<Pool(Ptr(<<"1", "2", "3">>))>>}

AksClusters ==
    [ID : ScanIds, Tier : {"Free", "Paid"}, AgentPoolProfiles : AksPoolLists,
     AddonProfiles : AddonMaps]

\* AKSScanner.GetRules, the SLA rule and the addon rules: key -> Id
AksRules ==
    [k \in {"SLA", "aks-010", "aks-011"} |->
        CASE k = "SLA" -> "aks-003"
          [] k = "aks-010" -> "aks-010"
          [] k = "aks-011" -> "aks-011"]

\* SLA: "None" unless the tier is Paid, then "99.9%", or "99.95%" when every
\* agent pool has at least 2 zones; broken iff "None"
aks_003(t) ==
    LET sla == IF t.Tier = "Paid"
               THEN (IF Zones(t) THEN "99.95%" ELSE "99.9%")
               ELSE "None"
    IN Ok(sla = "None", sla)

\* aks-010: broken iff the "httpApplicationRouting" addon is present and enabled
aks_010(t) ==
    Ok("httpApplicationRouting" \in DOMAIN t.AddonProfiles
         /\ t.AddonProfiles["httpApplicationRouting"].Enabled, "")

aks_011_AbsentCompliant(t) ==
    Ok("omsagent" \in DOMAIN t.AddonProfiles
         /\ ~t.AddonProfiles["omsagent"].Enabled, "")

\* aks-011: broken unless the "omsagent" addon is present and enabled
aks_011(t) ==
    Ok(~("omsagent" \in DOMAIN t.AddonProfiles
           /\ t.AddonProfiles["omsagent"].Enabled), "")

AksEval(key, t, pe, d) ==
    CASE key = "SLA" -> aks_003(t)
      [] key = "aks-010" -> aks_010(t)
      [] key = "aks-011" -> aks_011(t)

\* The resource kinds and the resources of each kind.
Kinds == {"plan", "site", "evh", "cae", "sigr", "aks"}

Targets(kind) ==
    CASE kind = "plan" -> Plans
      [] kind = "site" -> Sites
      [] kind = "evh" -> EHNamespaces
      [] kind = "cae" -> ManagedEnvironments
      [] kind = "sigr" -> SignalRs
      [] kind = "aks" -> AksClusters

NoScan == [kind |-> "none", target |-> <<>>, pe |-> {}]

NoEval ==
    [scanner |-> "none", key |-> "", id |-> "", asked |-> FALSE, cacheHit |-> FALSE,
     remoteErr |-> NoErr, out |-> Ok(FALSE, "")]

\* The remote is asked only by the DiagnosticSettings rules.
RemoteFor(key) ==
    IF key = "DiagnosticSettings" THEN DiagRemote ELSE {[err |-> NoErr, has |-> FALSE]}

\* rules[key].Eval(target, scanContext) is called and its outcome recorded.
\* Only the DiagnosticSettings rules call HasDiagnostics.
Evaluated(scanner, key, id, d, out) ==
    LET asks == key = "DiagnosticSettings"
    IN /\ lastEval' = [scanner |-> scanner, key |-> key, id |-> id,
                       asked |-> asks,
                       cacheHit |-> asks /\ diagCache[scan.target.ID] # "none",
                       remoteErr |-> IF asks THEN d.err ELSE NoErr,
                       out |-> out]
       /\ diagCache' = IF asks THEN d.cache ELSE diagCache
       /\ diagCalls' = IF asks THEN d.calls ELSE diagCalls
       /\ pc' = CASE out.status = "ok" -> "scan"
                  [] out.status = "fatal" -> "exited"
                  [] out.status = "panic" -> "panicked"
       /\ UNCHANGED <<scan, resourceGroup, more, fetched, served, clusters, idx, results,
                      ret, raised>>

----------------------------------------------------------------------------
Init ==
    /\ pc = "idle"
    /\ resourceGroup = ""
    /\ more = FALSE
    /\ fetched = 0
    /\ served = <<>>
    /\ clusters = <<>>
    /\ idx = 0
    /\ results = <<>>
    /\ ret = NoRet
    /\ raised = NoErr
    /\ diagCache = [id \in ResourceIds |-> "none"]
    /\ diagCalls = [id \in ResourceIds |-> 0]
    /\ scan = NoScan
    /\ lastEval = NoEval

\* Review is entered and listClusters creates the pager: a fresh pager
\* answers More() = true until a page says it was the last one.
StartReview ==
    /\ pc = "idle"
    /\ \E rg \in ResourceGroups : resourceGroup' = rg
    /\ pc' = "listing"
    /\ more' = TRUE
    /\ fetched' = 0
    /\ clusters' = <<>>
    /\ UNCHANGED <<served, idx, results, ret, raised, diagCache, diagCalls, scan, lastEval>>

NextPageRetryOnError ==
    /\ pc = "listing"
    /\ more
    /\ fetched < MaxPages
    /\ \/ \E page \in SeqsUpTo(ClusterPool, MaxClusters - Len(served)), last \in BOOLEAN :
            /\ (fetched + 1 = MaxPages) => last
            /\ served' = served \o page
            /\ clusters' = AppendPage(clusters, page)
            /\ fetched' = fetched + 1
            /\ more' = ~last
            /\ UNCHANGED <<pc, ret, raised>>
       \/ \E e \in PageErrors :
            /\ raised' = e
            /\ UNCHANGED <<fetched, more, served, clusters, pc, ret>>
    /\ UNCHANGED <<resourceGroup, idx, results, diagCache, diagCalls, scan, lastEval>>

\* One iteration of listClusters' loop: pager.More() was true, NextPage is
\* called. The remote serves a page (and says whether another follows) or fails.
NextPage ==
    /\ pc = "listing"
    /\ more
    /\ fetched < MaxPages
    /\ \/ \E page \in SeqsUpTo(ClusterPool, MaxClusters - Len(served)), last \in BOOLEAN :
            /\ (fetched + 1 = MaxPages) => last
            /\ served' = served \o page
            /\ clusters' = AppendPage(clusters, page)
            /\ fetched' = fetched + 1
            /\ more' = ~last
            /\ UNCHANGED <<pc, ret, raised>>
       \/ \E e \in PageErrors :
            /\ raised' = e
            /\ fetched' = fetched + 1
            /\ ret' = ListErrReturn(e)
            /\ pc' = "done"
            /\ UNCHANGED <<served, clusters, more>>
    /\ UNCHANGED <<resourceGroup, idx, results, diagCache, diagCalls, scan, lastEval>>

ListDoneEarly ==
    /\ pc = "listing"
    /\ fetched >= 1
    /\ pc' = "evaluating"
    /\ results' = <<>>
    /\ idx' = 1
    /\ UNCHANGED <<resourceGroup, more, fetched, served, clusters, ret, raised,
                   diagCache, diagCalls, scan, lastEval>>

\* pager.More() is false: listClusters returns clusters, nil and Review
\* starts its loop with results := []AzureServiceResult{}.
ListDone ==
    /\ pc = "listing"
    /\ ~more
    /\ pc' = "evaluating"
    /\ results' = <<>>
    /\ idx' = 1
    /\ UNCHANGED <<resourceGroup, more, fetched, served, clusters, ret, raised,
                   diagCache, diagCalls, scan, lastEval>>

\* One iteration of Review's loop over clusters.
EvalCluster ==
    /\ pc = "evaluating"
    /\ idx <= Len(clusters)
    /\ \E remote \in DiagRemote :
         LET c == clusters[idx]
             d == HasDiagnostics(diagCache, diagCalls, c.ID, remote)
         IN /\ diagCache' = d.cache
            /\ diagCalls' = d.calls
            /\ IF d.err # NoErr
               THEN /\ raised' = d.err
                    /\ ret' = DiagErrReturn(results, d.err)
                    /\ pc' = "done"
                    /\ UNCHANGED <<results, idx>>
               ELSE /\ results' = Append(results, MakeRow(c, resourceGroup, d.has))
                    /\ idx' = idx + 1
                    /\ UNCHANGED <<pc, ret, raised>>
    /\ UNCHANGED <<resourceGroup, more, fetched, served, clusters, scan, lastEval>>

\* The loop is over: return results, nil.
ReviewReturn ==
    /\ pc = "evaluating"
    /\ idx > Len(clusters)
    /\ ret' = OkReturn(results)
    /\ pc' = "done"
    /\ UNCHANGED <<resourceGroup, more, fetched, served, clusters, idx, results,
                   raised, diagCache, diagCalls, scan, lastEval>>

\* The evaluator takes up one resource, with the scan context of the run.
ScanResource ==
    /\ pc = "idle"
    /\ \E kind \in Kinds :
         \E t \in Targets(kind), pe \in (IF kind = "site" THEN PEContexts ELSE {{}}) :
            scan' = [kind |-> kind, target |-> t, pe |-> pe]
    /\ pc' = "scan"
    /\ UNCHANGED <<resourceGroup, more, fetched, served, clusters, idx, results, ret,
                   raised, diagCache, diagCalls, lastEval>>

EvalPlanRule ==
    /\ pc = "scan"
    /\ scan.kind = "plan"
    /\ \E key \in DOMAIN PlanRules : \E remote \in RemoteFor(key) :
         LET d == HasDiagnostics(diagCache, diagCalls, scan.target.ID, remote)
         IN Evaluated("plan", key, PlanRules[key], d, PlanEval(key, scan.target, scan.pe, d))

EvalAppRule ==
    /\ pc = "scan"
    /\ scan.kind = "site"
    /\ \E key \in DOMAIN AppRules : \E remote \in RemoteFor(key) :
         LET d == HasDiagnostics(diagCache, diagCalls, scan.target.ID, remote)
         IN Evaluated("app", key, AppRules[key], d, AppEval(key, scan.target, scan.pe, d))

EvalFunctionRule ==
    /\ pc = "scan"
    /\ scan.kind = "site"
    /\ \E key \in DOMAIN FunctionRules : \E remote \in RemoteFor(key) :
         LET d == HasDiagnostics(diagCache, diagCalls, scan.target.ID, remote)
         IN Evaluated("func", key, FunctionRules[key], d,
                      FunctionEval(key, scan.target, scan.pe, d))

EvalEvhRule ==
    /\ pc = "scan"
    /\ scan.kind = "evh"
    /\ \E key \in DOMAIN EvhRules : \E remote \in RemoteFor(key) :
         LET d == HasDiagnostics(diagCache, diagCalls, scan.target.ID, remote)
         IN Evaluated("evh", key, EvhRules[key], d, EvhEval(key, scan.target, scan.pe, d))

EvalCaeRule ==
    /\ pc = "scan"
    /\ scan.kind = "cae"
    /\ \E key \in DOMAIN CaeRules : \E remote \in RemoteFor(key) :
         LET d == HasDiagnostics(diagCache, diagCalls, scan.target.ID, remote)
         IN Evaluated("cae", key, CaeRules[key], d, CaeEval(key, scan.target, scan.pe, d))

EvalSigrRule ==
    /\ pc = "scan"
    /\ scan.kind = "sigr"
    /\ \E key \in DOMAIN SigrRules : \E remote \in RemoteFor(key) :
         LET d == HasDiagnostics(diagCache, diagCalls, scan.target.ID, remote)
         IN Evaluated("sigr", key, SigrRules[key], d, SigrEval(key, scan.target, scan.pe, d))

EvalAksRule ==
    /\ pc = "scan"
    /\ scan.kind = "aks"
    /\ \E key \in DOMAIN AksRules : \E remote \in RemoteFor(key) :
         LET d == HasDiagnostics(diagCache, diagCalls, scan.target.ID, remote)
         IN Evaluated("aks", key, AksRules[key], d, AksEval(key, scan.target, scan.pe, d))

Next ==
    \/ StartReview
    \/ NextPage
    \/ ListDone
    \/ EvalCluster
    \/ ReviewReturn
    \/ ScanResource
    \/ EvalPlanRule
    \/ EvalAppRule
    \/ EvalFunctionRule
    \/ EvalEvhRule
    \/ EvalCaeRule
    \/ EvalSigrRule
    \/ EvalAksRule

Spec == Init /\ [][Next]_vars

\* Review runs to its return without waiting on anything but the remote calls,
\* which answer: each of its steps is taken once it stays enabled.
FairSpec ==
    /\ Spec
    /\ WF_vars(NextPage)
    /\ WF_vars(ListDone)
    /\ WF_vars(EvalCluster)
    /\ WF_vars(ReviewReturn)

----------------------------------------------------------------------------
\* Properties.

\* What the claims say of a cluster, stated apart from Review's code.
EveryProfileHasTwoZones(c) ==
    \A i \in DOMAIN c.AgentPoolProfiles :
        /\ ~IsNil(c.AgentPoolProfiles[i].AvailabilityZones)
        /\ Len(Deref(c.AgentPoolProfiles[i].AvailabilityZones)) >= 2

\* The names of ClusterPool that begin with "aks".
AksPrefixed == {"aks-demo", "aks"}

\* C1: if a page fetch of the listing fails, Review returns nil rows together
\* with exactly the error the pager raised; no row of an earlier page leaks.
C1_PagingErrorReturnsNilAndThatError ==
    (pc = "done" /\ raised \in PageErrors) =>
        /\ ret.nilRows
        /\ ret.rows = <<>>
        /\ ret.err = raised

\* C1 witness: page 1 served resources, the fetch of page 2 failed.
C1_Witness ==
    /\ pc = "done"
    /\ raised \in PageErrors
    /\ fetched = 2
    /\ Len(served) >= 1

\* C2: while the pager still reports more pages, Review has looked up no
\* diagnostics settings and built no row: evaluation starts after the drain.
C2_DrainedBeforeEvaluation ==
    more =>
        /\ pc # "evaluating"
        /\ idx = 0
        /\ results = <<>>
        /\ \A id \in ResourceIds : diagCalls[id] = 0

\* C2 witness: rows are being built after a listing of several pages.
C2_Witness ==
    /\ pc = "evaluating"
    /\ fetched >= 2
    /\ Len(results) >= 2

\* C3: when no remote call failed, Review returns one row per listed
\* resource, in the order the pages served them.
C3_OneRowPerResourceInListingOrder ==
    (pc = "done" /\ raised = NoErr) =>
        /\ ret.err = NoErr
        /\ ~ret.nilRows
        /\ Len(ret.rows) = Len(served)
        /\ \A i \in 1..Len(served) : ret.rows[i].ServiceName = served[i].Name

\* C3 witness: a successful Review of three differently named resources
\* served over at least two pages.
C3_Witness ==
    /\ pc = "done"
    /\ raised = NoErr
    /\ fetched >= 2
    /\ Len(served) = 3
    /\ served[1].Name # served[2].Name
    /\ served[2].Name # served[3].Name
    /\ Len(ret.rows) = 3

\* C4 (amended): a row's AvailabilityZones is true iff every agent pool
\* profile of its cluster has at least 2 zone identifiers; a missing zone list
\* or 0 or 1 zone yields false, and an empty profile list yields true.
C4_ZonesIffEveryProfileHasTwoZones ==
    \A i \in 1..Len(results) :
        results[i].AvailabilityZones <=> EveryProfileHasTwoZones(served[i])

\* C4 witness: rows of a cluster without profiles (true), of one with a
\* missing zone list (false) and of one whose pools all have 2+ zones (true).
C4_Witness ==
    /\ \E i \in 1..Len(results) :
          served[i].AgentPoolProfiles = <<>> /\ results[i].AvailabilityZones
    /\ \E i \in 1..Len(results) :
          /\ \E j \in DOMAIN served[i].AgentPoolProfiles :
                IsNil(served[i].AgentPoolProfiles[j].AvailabilityZones)
          /\ ~results[i].AvailabilityZones
    /\ \E i \in 1..Len(results) :
          served[i].AgentPoolProfiles # <<>> /\ results[i].AvailabilityZones

\* C4 as claimed: as above, but an empty profile list yields false.
C4_AsClaimed_EmptyProfileListIsFalse ==
    \A i \in 1..Len(results) :
        results[i].AvailabilityZones <=>
            (served[i].AgentPoolProfiles # <<>> /\ EveryProfileHasTwoZones(served[i]))

\* C5: a row's Sla is "99.95%" for a Paid cluster whose pools are all zone
\* redundant, "99.9%" for a Paid cluster that is not, "None" for any other tier.
C5_SlaByTierAndZones ==
    \A i \in 1..Len(results) :
        LET c == served[i]
        IN /\ (c.Tier = "Paid" /\ EveryProfileHasTwoZones(c)) => results[i].Sla = "99.95%"
           /\ (c.Tier = "Paid" /\ ~EveryProfileHasTwoZones(c)) => results[i].Sla = "99.9%"
           /\ c.Tier # "Paid" => results[i].Sla = "None"

\* C5 witness: rows with each of the three values, the "None" one of a
\* cluster whose pools are all zone redundant.
C5_Witness ==
    /\ \E i \in 1..Len(results) : results[i].Sla = "99.95%"
    /\ \E i \in 1..Len(results) : results[i].Sla = "99.9%"
    /\ \E i \in 1..Len(results) :
          /\ results[i].Sla = "None"
          /\ served[i].AgentPoolProfiles # <<>>
          /\ EveryProfileHasTwoZones(served[i])

\* C6: every returned row carries the subscription id, Review's resource
\* group, the cluster's name, type and tier, its EnablePrivateCluster flag,
\* the diagnostics answer for its ID and CAFNaming = (name starts with
\* "aks"); the Paid, 3-zone, private, diagnostics-enabled "aks-demo" alone
\* yields one row with Sla "99.95%" and the four booleans true.
C6_RowFields ==
    (pc = "done" /\ raised = NoErr) =>
        /\ \A i \in 1..Len(ret.rows) :
              LET c == served[i]
                  r == ret.rows[i]
              IN /\ r.SubscriptionId = SubscriptionId
                 /\ r.ResourceGroup = resourceGroup
                 /\ r.ServiceName = c.Name
                 /\ r.Type = c.Type
                 /\ r.Sku = c.Tier
                 /\ r.PrivateEndpoints = c.EnablePrivateCluster
                 /\ r.DiagnosticSettings = (diagCache[c.ID] = "yes")
                 /\ r.CAFNaming = (c.Name \in AksPrefixed)
        /\ (/\ Len(served) = 1
            /\ served[1].Name = "aks-demo"
            /\ diagCache[served[1].ID] = "yes") =>
               ret.rows = << [SubscriptionId |-> SubscriptionId,
                              ResourceGroup |-> resourceGroup,
                              ServiceName |-> "aks-demo",
                              Sku |-> "Paid",
                              Sla |-> "99.95%",
                              Type |-> AKSType,
                              AvailabilityZones |-> TRUE,
                              PrivateEndpoints |-> TRUE,
                              DiagnosticSettings |-> TRUE,
                              CAFNaming |-> TRUE] >>

\* C6 witness: Review returned for the single cluster "aks-demo" with
\* diagnostics enabled.
C6_Witness ==
    /\ pc = "done"
    /\ raised = NoErr
    /\ Len(served) = 1
    /\ served[1].Name = "aks-demo"
    /\ diagCache[served[1].ID] = "yes"
    /\ Len(ret.rows) = 1

\* C7: a diagnostics lookup error is fatal: Review returns nil rows and that
\* error, whatever rows it had built, and a DiagnosticSettings rule's Eval
\* ends the process.
C7_DiagnosticsErrorIsFatal ==
    /\ (pc = "done" /\ raised \in DiagErrors) =>
          /\ ret.nilRows
          /\ ret.rows = <<>>
          /\ ret.err = raised
    /\ (lastEval.asked /\ lastEval.remoteErr # NoErr) =>
          /\ lastEval.out.status = "fatal"
          /\ pc = "exited"

\* C7 witness: the lookup failed after rows had been built for earlier resources.
C7_Witness ==
    /\ pc = "done"
    /\ raised \in DiagErrors
    /\ Len(results) >= 1
    /\ ret.nilRows

\* C8: the remote diagnostics-settings capability is called at most once per
\* resource ID, however often that ID is looked up.
C8_OneRemoteCallPerResourceId ==
    \A id \in ResourceIds : diagCalls[id] <= 1

\* C8 witness: Review has looked up the same resource ID twice, with one
\* remote call made for it.
C8_Witness ==
    /\ pc \in {"evaluating", "done"}
    /\ \E i, j \in 1..Len(results) :
          /\ i < j
          /\ clusters[i].ID = clusters[j].ID
          /\ diagCalls[clusters[i].ID] = 1

\* The flag a zone-redundant or HTTPS-only rule reads from its resource.
FlagRuleIds == {"plan-002", "evh-002", "cae-002", "app-007", "func-007"}

FlagOf(id, t) == IF id \in {"app-007", "func-007"} THEN t.HTTPSOnly ELSE t.ZoneRedundant

\* C9: a boolean-flag rule whose safe default is enabled (zone redundant,
\* HTTPS only) treats an absent flag as false: Eval does not fail and returns
\* broken = true; with the flag present broken is its negation.
C9_AbsentFlagIsBroken ==
    (lastEval.id \in FlagRuleIds) =>
        /\ lastEval.out.status = "ok"
        /\ lastEval.out.broken =
              (IsNil(FlagOf(lastEval.id, scan.target))
                 \/ ~Deref(FlagOf(lastEval.id, scan.target)))

\* C10: evh-008 returns broken = true exactly when DisableLocalAuth is
\* present and false, and always an empty value.
C10_Evh008BrokenIffPresentAndFalse ==
    (lastEval.id = "evh-008") =>
        /\ lastEval.out.status = "ok"
        /\ lastEval.out.value = ""
        /\ lastEval.out.broken = (scan.target.DisableLocalAuth = Ptr(FALSE))

\* C10 witness: evh-008 evaluated on a namespace without the flag: not broken.
C10_Witness ==
    /\ lastEval.id = "evh-008"
    /\ IsNil(scan.target.DisableLocalAuth)
    /\ ~lastEval.out.broken

\* C11 (amended): the plan SLA rule yields "None" and broken = true when the
\* plan's tier is "Free" or "Shared", and a non-"None" SLA with broken = false
\* for every other tier, "Basic" included.
C11_PlanSlaNoneIffFreeOrShared ==
    (lastEval.id = "plan-003") =>
        /\ lastEval.out.status = "ok"
        /\ (scan.target.SKU.Tier \in {"Free", "Shared"}) =>
              (lastEval.out.value = "None" /\ lastEval.out.broken)
        /\ (scan.target.SKU.Tier \notin {"Free", "Shared"}) =>
              (lastEval.out.value # "None" /\ ~lastEval.out.broken)

\* C11 witness: the rule evaluated on a Basic plan gave "99.95%", not broken.
C11_Witness ==
    /\ lastEval.id = "plan-003"
    /\ scan.target.SKU.Tier = "Basic"
    /\ lastEval.out.value = "99.95%"
    /\ ~lastEval.out.broken

\* C11 as claimed: "None" and broken for "Free", "Basic" and "Shared".
C11_AsClaimed_BasicHasNoSla ==
    (lastEval.id = "plan-003") =>
        /\ lastEval.out.status = "ok"
        /\ (scan.target.SKU.Tier \in {"Free", "Basic", "Shared"}) =>
              (lastEval.out.value = "None" /\ lastEval.out.broken)
        /\ (scan.target.SKU.Tier \notin {"Free", "Basic", "Shared"}) =>
              (lastEval.out.value # "None" /\ ~lastEval.out.broken)

\* The resource names of the model that begin, case-sensitively, with the
\* CAF prefix of their scanner's resource type.
CafCompliantNames(scanner) ==
    CASE scanner = "plan" -> {"asp-web"}
      [] scanner = "app" -> {"app-web"}
      [] scanner = "func" -> {"func-web"}
      [] scanner = "evh" -> {"evh-bus"}
      [] scanner = "cae" -> {"cae-env"}
      [] scanner = "sigr" -> {"sigr-hub"}
      [] OTHER -> {}

\* C12: a CAF rule returns broken = false iff the resource name begins,
\* case-sensitively, with the prefix of its resource type ("asp", "app",
\* "func", "evh", "cae", "sigr"; "aks" for Review's CAFNaming), always with
\* an empty value.
C12_CafBrokenIffNoPrefix ==
    /\ (lastEval.key = "CAF") =>
          /\ lastEval.out.status = "ok"
          /\ lastEval.out.value = ""
          /\ lastEval.out.broken = (scan.target.Name \notin CafCompliantNames(lastEval.scanner))
    /\ \A i \in 1..Len(results) :
          results[i].CAFNaming = (served[i].Name \in AksPrefixed)

\* C12 witness: a CAF rule found a name that differs from a compliant one
\* only in case to be broken.
C12_Witness ==
    /\ lastEval.key = "CAF"
    /\ lastEval.scanner = "sigr"
    /\ scan.target.Name = "Sigr-hub"
    /\ lastEval.out.broken

TagRuleIds == {"plan-007", "app-008", "func-008", "evh-007", "cae-007", "sigr-007"}

\* C13: a tags rule returns broken = true when the resource's tag map is
\* absent or empty and broken = false for a non-empty tag map.
C13_TagsBrokenIffAbsentOrEmpty ==
    (lastEval.id \in TagRuleIds) =>
        /\ lastEval.out.status = "ok"
        /\ lastEval.out.broken =
              ~(scan.target.Tags # Nil /\ DOMAIN scan.target.Tags[1] # {})

\* C13 witness: a tags rule found a present but empty tag map to be broken.
C13_Witness ==
    /\ lastEval.id \in TagRuleIds
    /\ ~IsNil(scan.target.Tags)
    /\ DOMAIN Deref(scan.target.Tags) = {}
    /\ lastEval.out.broken

\* C14: aks-010 is broken iff the "httpApplicationRouting" addon is present
\* and enabled (an absent key is not broken); aks-011 is broken unless the
\* "omsagent" addon is present and enabled (an absent key is broken).
C14_AddonRulesAsymmetry ==
    LET addons == scan.target.AddonProfiles
        On(k) == k \in DOMAIN addons /\ addons[k] = [Enabled |-> TRUE]
    IN /\ (lastEval.id = "aks-010") =>
             /\ lastEval.out.status = "ok"
             /\ lastEval.out.broken = On("httpApplicationRouting")
             /\ ("httpApplicationRouting" \notin DOMAIN addons) => ~lastEval.out.broken
       /\ (lastEval.id = "aks-011") =>
             /\ lastEval.out.status = "ok"
             /\ lastEval.out.broken = ~On("omsagent")
             /\ ("omsagent" \notin DOMAIN addons) => lastEval.out.broken

\* C14 witness: aks-011 evaluated on a cluster without the "omsagent" key
\* (other addons present) is broken.
C14_Witness ==
    /\ lastEval.id = "aks-011"
    /\ "omsagent" \notin DOMAIN scan.target.AddonProfiles
    /\ "httpApplicationRouting" \in DOMAIN scan.target.AddonProfiles
    /\ lastEval.out.broken

\* C15: Eval is deterministic: when a rule is evaluated again on the same
\* resource under the same scan context, directly after an evaluation of that
\* same rule, it returns the same (broken, value) outcome; this includes the
\* DiagnosticSettings rules, which ask the diagnostics capability.
C15_EvalDeterministic ==
    [][(/\ pc = "scan"
        /\ lastEval.scanner # "none"
        /\ scan' = scan
        /\ lastEval'.scanner = lastEval.scanner
        /\ lastEval'.key = lastEval.key)
          => lastEval'.out = lastEval.out]_vars

\* C15 witness: a DiagnosticSettings rule was evaluated a second time on the
\* same resource and answered from what the first evaluation learnt.
C15_Witness ==
    /\ pc = "scan"
    /\ lastEval.asked
    /\ lastEval.cacheHit
    /\ lastEval.out.status = "ok"
    /\ ~lastEval.out.broken
    /\ diagCalls[scan.target.ID] = 1

\* The six rule sets the claim names, by scanner.
RuleSets ==
    [plan |-> PlanRules, app |-> AppRules, func |-> FunctionRules,
     evh |-> EvhRules, cae |-> CaeRules, sigr |-> SigrRules]

UniqueIds(rules) == \A j, k \in DOMAIN rules : rules[j] = rules[k] => j = k

\* C16: within each rule set (plan, app, function, Event Hub, Container Apps,
\* SignalR) no two rules have the same Id: the Id of an evaluated rule belongs
\* to that rule alone in its set.
C16_IdsUniqueWithinRuleSet ==
    /\ \A s \in DOMAIN RuleSets : UniqueIds(RuleSets[s])
    /\ (lastEval.scanner \in DOMAIN RuleSets) =>
          \A k \in DOMAIN RuleSets[lastEval.scanner] :
              RuleSets[lastEval.scanner][k] = lastEval.id => k = lastEval.key

\* C16 witness: the last rule of the plan set, "plan-007", was evaluated.
C16_Witness ==
    /\ lastEval.scanner = "plan"
    /\ lastEval.key = "plan-007"
    /\ lastEval.id = "plan-007"

\* C17: listing is fail-fast: the step on which a page fetch fails ends the
\* Review call, and from then on no further page is fetched and no
\* diagnostics lookup is issued; none was issued before it either.
C17_FailFastListing ==
    [][(raised' \in PageErrors) =>
          /\ pc' = "done"
          /\ idx' = 0
          /\ \A id \in ResourceIds : diagCalls'[id] = 0
          /\ (raised \in PageErrors) => (fetched' = fetched /\ diagCalls' = diagCalls)]_vars

\* C17 witness: the second fetch failed while the pager still had pages to
\* serve; Review is over with those pages never requested.
C17_Witness ==
    /\ pc = "done"
    /\ raised \in PageErrors
    /\ more
    /\ fetched = 2
    /\ fetched < MaxPages
    /\ Len(served) >= 2
    /\ \A id \in ResourceIds : diagCalls[id] = 0

\* The SKU names of EHNamespaces that contain "Basic" or "Standard".
BasicOrStandardNames == {"Basic", "Standard", "Standard_S1"}

\* C18: the Event Hub SLA rule never reports broken; its value is "99.95%"
\* when the SKU name contains "Basic" or "Standard" and "99.99%" otherwise.
C18_EvhSlaByName ==
    (lastEval.id = "evh-003") =>
        /\ lastEval.out.status = "ok"
        /\ ~lastEval.out.broken
        /\ lastEval.out.value =
              (IF scan.target.SkuName \in BasicOrStandardNames THEN "99.95%" ELSE "99.99%")

\* C18 witness: the rule evaluated on a Premium namespace answers "99.99%".
C18_Witness ==
    /\ lastEval.id = "evh-003"
    /\ scan.target.SkuName = "Premium"
    /\ lastEval.out = Ok(FALSE, "99.99%")

RowConsistent(r) ==
    /\ r.Sla \in {"None", "99.9%", "99.95%"}
    /\ (r.Sla = "None") <=> (r.Sku # "Paid")
    /\ (r.Sla = "99.95%") <=> (r.Sku = "Paid" /\ r.AvailabilityZones)

\* C20: every row Review builds and returns is internally consistent: Sla is
\* "None", "99.9%" or "99.95%"; Sla = "None" iff Sku is not "Paid"; and
\* Sla = "99.95%" iff Sku = "Paid" and AvailabilityZones is true.
C20_RowsConsistent ==
    /\ \A i \in 1..Len(results) : RowConsistent(results[i])
    /\ \A i \in 1..Len(ret.rows) : RowConsistent(ret.rows[i])

\* C20 witness: Review returned a zone-redundant row of a tier other than
\* Paid (Sla "None"), a Paid row without zone redundancy and a "99.95%" row.
C20_Witness ==
    /\ pc = "done"
    /\ ret.err = NoErr
    /\ \E i \in 1..Len(ret.rows) :
          /\ ret.rows[i].Sku # "Paid"
          /\ ret.rows[i].AvailabilityZones
          /\ ret.rows[i].Sla = "None"
    /\ \E i \in 1..Len(ret.rows) :
          /\ ret.rows[i].Sku = "Paid"
          /\ ~ret.rows[i].AvailabilityZones
          /\ ret.rows[i].Sla = "99.9%"
    /\ \E i \in 1..Len(ret.rows) : ret.rows[i].Sla = "99.95%"

\* C21: every rule registered under the "SLA" key (plan, Event Hub, Container
\* Apps, SignalR, AKS) returns broken = true iff the SLA value it returns is
\* "None".
C21_SlaBrokenIffNone ==
    (lastEval.key = "SLA") =>
        /\ lastEval.scanner \in {"plan", "evh", "cae", "sigr", "aks"}
        /\ lastEval.out.status = "ok"
        /\ lastEval.out.broken <=> (lastEval.out.value = "None")

\* C21 witness: the plan's SLA rule evaluated on a Shared plan is broken
\* with the value "None".
C21_Witness ==
    /\ lastEval.key = "SLA"
    /\ lastEval.scanner = "plan"
    /\ scan.target.SKU.Tier = "Shared"
    /\ lastEval.out = Ok(TRUE, "None")

====
